---------------------------- MODULE Spec2Model ----------------------------
(* Model of the TomTom map version checker (src/src/index.ts): the         *)
(* scheduled handler, the two key-value namespaces it writes               *)
(* (MAP_VERSIONS, MAP_VERSION_CHANGES), the notifier and the read-only     *)
(* request handler.                                                        *)
(*                                                                         *)
(* Dates are day numbers: the ISO date string of day d is represented by   *)
(* the integer d, so "one day before" is d - 1 and the lexicographic order *)
(* of the date keys is the order of the integers.  A map version (a four   *)
(* digit string) is represented by the integer it spells.  Every await of  *)
(* the scheduled handler is one atomic step of the run that executes it;   *)
(* the synchronous code between two awaits belongs to the step of the      *)
(* await before it.                                                        *)
EXTENDS Integers, Sequences, FiniteSets, TLC

(* ------------------------------ bounds -------------------------------- *)

MaxDay == 3

NumVersions == 2

\* the number of scheduled runs a behaviour holds
MaxRuns == 3

(* --------------------------- value domains ---------------------------- *)

\* null / undefined / an absent key: every falsy value of the code
None == 0

Days == 1..MaxDay

Versions == {2022 + i : i \in 1..NumVersions}

\* the invocations of the scheduled handler that may be in flight
Procs == {1, 2}

Paths == {"/", "/v1", "/v1/current", "/v1/history", "/other"}

VARIABLES
    today,            \* the UTC calendar date of the clock
    versions,         \* MAP_VERSIONS: date -> version
    changes,          \* MAP_VERSION_CHANGES: date -> change record
    lastChange,       \* MAP_VERSION_CHANGES["last_change"]
    pc,               \* where each invocation of scheduled() stands
    previousVersion,  \* local of scheduled()
    latestVersion,    \* local of scheduled()
    key,              \* local of scheduled(): the change record's key
    startDay,         \* the date on which the invocation started
    log,              \* the outbound calls the invocation made, in order
    response,         \* the response to the request handled last
    runs,             \* the number of invocations started so far
    cadence,          \* "fresh": one run per date so far, none yet today;
                      \* "ran": one run per date so far, one today;
                      \* "broken": two runs on one date, or one across midnight
    page,             \* what the HTTP GET of WEB_PAGE_URL meets
    outcome           \* what fetchMapVersion made of it

vars == <<today, versions, changes, lastChange, pc, previousVersion,
          latestVersion, key, startDay, log, response, runs, cadence,
          page, outcome>>

store == <<versions, changes, lastChange>>

fetcher == <<page, outcome>>

(* ------------------------------ helpers ------------------------------- *)

getTodayDate(now) == now

getDateOneDayBefore(date, now) == (IF date # None THEN date ELSE now) - 1

\* KV get: the value under a key, null when the key is absent
KVGet(kv, k) == IF k \in DOMAIN kv THEN kv[k] ELSE None

\* variant: a put that keeps a two-day window and drops the older keys
KVPutEvicting(kv, k, v) == [d \in DOMAIN kv |-> IF d = k THEN v ELSE IF d < k - 1 THEN None ELSE kv[d]]

\* KV put: unconditional upsert of one key
KVPut(kv, k, v) == [kv EXCEPT ![k] = v]

NoneFound == [date |-> None, version |-> None]

RECURSIVE FirstPresent(_, _, _)
FirstPresent(dates, versionsMap, i) ==
    IF i > Len(dates) THEN NoneFound
    ELSE IF versionsMap[i] # None
         THEN [date |-> dates[i], version |-> versionsMap[i]]
         ELSE FirstPresent(dates, versionsMap, i + 1)

\* variant: the dates looked up in the other order
GetLatestVersionYesterdayFirst(kv, now) ==
    LET dates == <<getDateOneDayBefore(None, now), getTodayDate(now)>>
        versionsMap == [i \in 1..Len(dates) |-> KVGet(kv, dates[i])]
    IN  FirstPresent(dates, versionsMap, 1)

getLatestVersion(kv, now) ==
    LET dates == <<getTodayDate(now), getDateOneDayBefore(None, now)>>
        versionsMap == [i \in 1..Len(dates) |-> KVGet(kv, dates[i])]
    IN  FirstPresent(dates, versionsMap, 1)

NoChange == [created_at |-> None, from_version |-> None, to_version |-> None]

\* variant: the two versions of the record exchanged
VersionChangeSwapped(created, from, to) ==
    [created_at |-> created, from_version |-> to, to_version |-> from]

VersionChange(created, from, to) ==
    [created_at |-> created, from_version |-> from, to_version |-> to]

\* variant: no test for an unchanged version
DetectChangeAlways(prev, latest) ==
    IF prev = None THEN "first" ELSE "changed"

\* variant: no test for a missing previous version
DetectChangeNoFirst(prev, latest) ==
    IF prev = latest THEN "unchanged" ELSE "changed"

\* the three branches after the Version Record has been written
DetectChange(prev, latest) ==
    IF prev = None THEN "first"
    ELSE IF prev = latest THEN "unchanged"
    ELSE "changed"

\* variant: a failed fetch is reported unconditionally
ReportsFetchErrorAlways(prev) == TRUE

\* whether a failed fetch is reported by email
ReportsFetchError(prev) == prev # None

\* one outbound call of a run, with its outcome
Call(op, day, from, to, ok) ==
    [op |-> op, day |-> day, from |-> from, to |-> to, ok |-> ok]

NoResponse == [status |-> None, path |-> "", version |-> None, date |-> None,
               lastChangeDate |-> None, lastChange |-> NoChange,
               history |-> <<>>]

Active(p) == pc[p] \notin {"idle", "done", "failed"}

\* the one invocation in flight when the trigger fires one run at a time
Solo == {1}

(* --------------------------- the fetcher ------------------------------ *)

\* the number of fragments a page body is put together from
MaxFragments == 4

PhraseLower ==
    <<"l", "a", "t", "e", "s", "t", " ", "m", "a", "p", " ",
      "v", "e", "r", "s", "i", "o", "n", " ", "i", "s">>

PhraseUpper ==
    <<"L", "A", "T", "E", "S", "T", " ", "M", "A", "P", " ",
      "V", "E", "R", "S", "I", "O", "N", " ", "I", "S">>

\* the pieces of text the page bodies are put together from
Fragments ==
    { PhraseLower, PhraseUpper, <<" ">>, <<"\n">>, <<"<", "b", ">">>, <<"<">>,
      <<"2", "0", "2", "7">>, <<"2", "0">> }

RECURSIVE Concat(_)
Concat(fs) == IF fs = <<>> THEN <<>> ELSE Head(fs) \o Concat(Tail(fs))

Bodies ==
    {Concat(fs) : fs \in UNION {[1..n -> Fragments] : n \in 0..MaxFragments}}

\* the pages: no response within the timeout, or a status with a body
Pages ==
    {[arrived |-> FALSE, status |-> None, body |-> <<>>]}
    \cup {[arrived |-> TRUE, status |-> st, body |-> b] : st \in {200, 404}, b \in Bodies}

NoPage == [arrived |-> FALSE, status |-> None, body |-> <<"-">>]

NoOutcome == [kind |-> "", version |-> None]

\* res.ok
IsOk(status) == status \in 200..299

\* \s
IsSpace(c) == c \in {" ", "\n", "\t", "\r"}

Digits == <<"0", "1", "2", "3", "4", "5", "6", "7", "8", "9">>

\* \d
IsDigit(c) == \E i \in 1..Len(Digits) : Digits[i] = c

DigitValue(c) == (CHOOSE i \in 1..Len(Digits) : Digits[i] = c) - 1

\* the letters of the phrase under the flag i
Lower(c) ==
    IF \E k \in 1..Len(PhraseUpper) : PhraseUpper[k] = c /\ c # " "
    THEN PhraseLower[CHOOSE k \in 1..Len(PhraseUpper) : PhraseUpper[k] = c]
    ELSE c

\* where the match of <[^>]+> that starts at i ends; 0 when there is none
TagEnd(s, i) ==
    IF s[i] = "<" /\ i + 1 <= Len(s) /\ s[i + 1] # ">"
       /\ \E j \in (i + 2)..Len(s) : s[j] = ">"
    THEN CHOOSE j \in (i + 2)..Len(s) :
            s[j] = ">" /\ \A k \in (i + 2)..(j - 1) : s[k] # ">"
    ELSE 0

\* body.replaceAll(/<[^>]+>/g, " ")
RECURSIVE StripTags(_, _)
StripTags(s, i) ==
    IF i > Len(s) THEN <<>>
    ELSE IF TagEnd(s, i) # 0
         THEN <<" ">> \o StripTags(s, TagEnd(s, i) + 1)
         ELSE <<s[i]>> \o StripTags(s, i + 1)

\* the last index of the run of whitespace that starts at i
RECURSIVE SpaceRunEnd(_, _)
SpaceRunEnd(s, i) ==
    IF i + 1 <= Len(s) /\ IsSpace(s[i + 1]) THEN SpaceRunEnd(s, i + 1) ELSE i

\* .replaceAll(/\s{2,}/g, " ")
RECURSIVE CollapseSpaces(_, _)
CollapseSpaces(s, i) ==
    IF i > Len(s) THEN <<>>
    ELSE IF IsSpace(s[i]) /\ SpaceRunEnd(s, i) > i
         THEN <<" ">> \o CollapseSpaces(s, SpaceRunEnd(s, i) + 1)
         ELSE <<s[i]>> \o CollapseSpaces(s, i + 1)

\* /latest map version is (\d{4})/i matches at index i of s
MatchesAt(s, i) ==
    /\ i + Len(PhraseLower) + 4 <= Len(s)
    /\ \A k \in 1..Len(PhraseLower) : Lower(s[i + k - 1]) = PhraseLower[k]
    /\ s[i + Len(PhraseLower)] = " "
    /\ \A k \in 1..4 : IsDigit(s[i + Len(PhraseLower) + k])

\* body.match(...): the index of the leftmost match, 0 when there is none
RECURSIVE FindMatch(_, _)
FindMatch(s, i) ==
    IF i > Len(s) THEN 0
    ELSE IF MatchesAt(s, i) THEN i
    ELSE FindMatch(s, i + 1)

\* versionMatch[1]: the four digits of the match at i, as the number they spell
Captured(s, i) ==
    LET d(k) == DigitValue(s[i + Len(PhraseLower) + k])
    IN  d(1) * 1000 + d(2) * 100 + d(3) * 10 + d(4)

\* variant: the status of the response is not looked at
FetchMapVersionAnyStatus(pg) ==
    IF ~pg.arrived THEN [kind |-> "TransportError", version |-> None]
    ELSE LET text == CollapseSpaces(StripTags(pg.body, 1), 1)
             at == FindMatch(text, 1)
         IN  IF at = 0
             THEN [kind |-> "ParseError", version |-> None]
             ELSE [kind |-> "value", version |-> Captured(text, at)]

\* fetchMapVersion: the fetch rejects (timeout, no connection), or the
\* status is bad, or the marker is missing, or the version is returned
fetchMapVersion(pg) ==
    IF ~pg.arrived THEN [kind |-> "TransportError", version |-> None]
    ELSE IF ~IsOk(pg.status) THEN [kind |-> "FetchError", version |-> None]
    ELSE LET text == CollapseSpaces(StripTags(pg.body, 1), 1)
             at == FindMatch(text, 1)
         IN  IF at = 0
             THEN [kind |-> "ParseError", version |-> None]
             ELSE [kind |-> "value", version |-> Captured(text, at)]

(* ------------------------------- Init --------------------------------- *)

Init ==
    /\ today = 1
    /\ versions = [d \in Days |-> None]
    /\ changes = [d \in Days |-> NoChange]
    /\ lastChange = None
    /\ pc = [p \in Procs |-> "idle"]
    /\ previousVersion = [p \in Procs |-> None]
    /\ latestVersion = [p \in Procs |-> None]
    /\ key = [p \in Procs |-> None]
    /\ startDay = [p \in Procs |-> None]
    /\ log = [p \in Procs |-> <<>>]
    /\ response = NoResponse
    /\ runs = 0
    /\ cadence = "fresh"
    /\ page = NoPage
    /\ outcome = NoOutcome

(* ------------------------- the scheduled run -------------------------- *)

\* the cron trigger invokes scheduled()
Started(p) ==
    /\ runs < MaxRuns
    /\ runs' = runs + 1
    /\ startDay' = [startDay EXCEPT ![p] = today]
    /\ cadence' = IF cadence = "fresh" THEN "ran" ELSE "broken"

\* the lookup of the previous version succeeds
ReadPreviousOk(p) ==
    /\ pc[p] = "idle"
    /\ LET found == getLatestVersion(versions, today)
       IN  /\ previousVersion' = [previousVersion EXCEPT ![p] = found.version]
           /\ log' = [log EXCEPT ![p] =
                 <<Call("getLatestVersion", found.date, None, found.version, TRUE)>>]
    /\ pc' = [pc EXCEPT ![p] = "fetch"]
    /\ Started(p)
    /\ response' = NoResponse
    /\ UNCHANGED fetcher
    /\ UNCHANGED <<today, store, latestVersion, key>>

\* variant: the failed lookup is not caught
ReadPreviousFailRethrows(p) ==
    /\ pc[p] = "idle"
    /\ previousVersion' = [previousVersion EXCEPT ![p] = None]
    /\ log' = [log EXCEPT ![p] =
          <<Call("getLatestVersion", None, None, None, FALSE)>>]
    /\ pc' = [pc EXCEPT ![p] = "failed"]
    /\ Started(p)
    /\ response' = NoResponse
    /\ UNCHANGED fetcher
    /\ UNCHANGED <<today, store, latestVersion, key>>

\* the lookup of the previous version throws: the catch logs and goes on
ReadPreviousFail(p) ==
    /\ pc[p] = "idle"
    /\ previousVersion' = [previousVersion EXCEPT ![p] = None]
    /\ log' = [log EXCEPT ![p] =
          <<Call("getLatestVersion", None, None, None, FALSE)>>]
    /\ pc' = [pc EXCEPT ![p] = "fetch"]
    /\ Started(p)
    /\ response' = NoResponse
    /\ UNCHANGED fetcher
    /\ UNCHANGED <<today, store, latestVersion, key>>

\* fetchMapVersion returns the version v found on the page
FetchOk(p, v) ==
    /\ pc[p] = "fetch"
    /\ latestVersion' = [latestVersion EXCEPT ![p] = v]
    /\ log' = [log EXCEPT ![p] = Append(@, Call("fetchMapVersion", None, None, v, TRUE))]
    /\ pc' = [pc EXCEPT ![p] = "persist"]
    /\ response' = NoResponse
    /\ UNCHANGED fetcher
    /\ UNCHANGED <<today, store, previousVersion, key, startDay, runs, cadence>>

\* fetchMapVersion throws (bad status, no marker, timeout)
FetchFail(p) ==
    /\ pc[p] = "fetch"
    /\ log' = [log EXCEPT ![p] = Append(@, Call("fetchMapVersion", None, None, None, FALSE))]
    /\ pc' = [pc EXCEPT ![p] =
          IF ReportsFetchError(previousVersion[p]) THEN "report" ELSE "failed"]
    /\ response' = NoResponse
    /\ UNCHANGED fetcher
    /\ UNCHANGED <<today, store, previousVersion, latestVersion, key, startDay,
                   runs, cadence>>

\* reportError -> sendEmail, with either outcome; the run then rethrows
ReportError(p, ok) ==
    /\ pc[p] = "report"
    /\ log' = [log EXCEPT ![p] = Append(@, Call("sendEmail:error", None, None, None, ok))]
    /\ pc' = [pc EXCEPT ![p] = "failed"]
    /\ response' = NoResponse
    /\ UNCHANGED fetcher
    /\ UNCHANGED <<today, store, previousVersion, latestVersion, key, startDay,
                   runs, cadence>>

\* variant: a changed version goes to the change log before the Version
\* Record is written
PutVersionOkChangeFirst(p) ==
    /\ pc[p] = "persist"
    /\ IF DetectChange(previousVersion[p], latestVersion[p]) = "changed"
       THEN /\ versions' = versions
            /\ log' = log
            /\ key' = [key EXCEPT ![p] = getTodayDate(today)]
            /\ pc' = [pc EXCEPT ![p] = "putChange"]
       ELSE /\ versions' = KVPut(versions, getTodayDate(today), latestVersion[p])
            /\ log' = [log EXCEPT ![p] =
                  Append(@, Call("putVersion", getTodayDate(today), None,
                                 latestVersion[p], TRUE))]
            /\ key' = key
            /\ pc' = [pc EXCEPT ![p] = "done"]
    /\ response' = NoResponse
    /\ UNCHANGED fetcher
    /\ UNCHANGED <<today, changes, lastChange, previousVersion, latestVersion,
                   startDay, runs, cadence>>

\* MAP_VERSIONS.put(today, latestVersion) succeeds; the branch on the
\* previous version and the computation of the change key follow at once
PutVersionOk(p) ==
    /\ pc[p] = "persist"
    /\ versions' = KVPut(versions, getTodayDate(today), latestVersion[p])
    /\ log' = [log EXCEPT ![p] =
          Append(@, Call("putVersion", getTodayDate(today), None, latestVersion[p], TRUE))]
    /\ IF DetectChange(previousVersion[p], latestVersion[p]) = "changed"
       THEN /\ key' = [key EXCEPT ![p] = getTodayDate(today)]
            /\ pc' = [pc EXCEPT ![p] = "putChange"]
       ELSE /\ key' = key
            /\ pc' = [pc EXCEPT ![p] = "done"]
    /\ response' = NoResponse
    /\ UNCHANGED fetcher
    /\ UNCHANGED <<today, changes, lastChange, previousVersion, latestVersion,
                   startDay, runs, cadence>>

\* variant: the failed write is reported only with a known previous version
PutVersionFailReportsIfKnown(p) ==
    /\ pc[p] = "persist"
    /\ log' = [log EXCEPT ![p] =
          Append(@, Call("putVersion", getTodayDate(today), None, latestVersion[p], FALSE))]
    /\ pc' = [pc EXCEPT ![p] = IF previousVersion[p] # None THEN "report" ELSE "failed"]
    /\ response' = NoResponse
    /\ UNCHANGED fetcher
    /\ UNCHANGED <<today, store, previousVersion, latestVersion, key, startDay,
                   runs, cadence>>

\* MAP_VERSIONS.put throws: the catch reports the error and rethrows
PutVersionFail(p) ==
    /\ pc[p] = "persist"
    /\ log' = [log EXCEPT ![p] =
          Append(@, Call("putVersion", getTodayDate(today), None, latestVersion[p], FALSE))]
    /\ pc' = [pc EXCEPT ![p] = "report"]
    /\ response' = NoResponse
    /\ UNCHANGED fetcher
    /\ UNCHANGED <<today, store, previousVersion, latestVersion, key, startDay,
                   runs, cadence>>

\* variant: a run that finds a change record under its key leaves it and
\* ends without notifying
PutChangeIfAbsent(p, ok) ==
    /\ pc[p] = "putChange"
    /\ changes' = IF ok /\ changes[key[p]] = NoChange
                  THEN KVPut(changes, key[p],
                             VersionChange(key[p], previousVersion[p], latestVersion[p]))
                  ELSE changes
    /\ log' = [log EXCEPT ![p] =
          IF changes[key[p]] = NoChange
          THEN Append(@, Call("putChange", key[p], previousVersion[p], latestVersion[p], ok))
          ELSE @]
    /\ pc' = [pc EXCEPT ![p] = IF changes[key[p]] # NoChange THEN "done"
                               ELSE IF ok THEN "putPointer" ELSE "failed"]
    /\ response' = NoResponse
    /\ UNCHANGED fetcher
    /\ UNCHANGED <<today, versions, lastChange, previousVersion, latestVersion,
                   key, startDay, runs, cadence>>

\* variant: a rejected put of the record does not stop the run
PutChangeFailureIgnored(p, ok) ==
    /\ pc[p] = "putChange"
    /\ changes' = IF ok
                  THEN KVPut(changes, key[p],
                             VersionChange(key[p], previousVersion[p], latestVersion[p]))
                  ELSE changes
    /\ log' = [log EXCEPT ![p] =
          Append(@, Call("putChange", key[p], previousVersion[p], latestVersion[p], ok))]
    /\ pc' = [pc EXCEPT ![p] = "putPointer"]
    /\ response' = NoResponse
    /\ UNCHANGED fetcher
    /\ UNCHANGED <<today, versions, lastChange, previousVersion, latestVersion,
                   key, startDay, runs, cadence>>

\* MAP_VERSION_CHANGES.put(key, change) with either outcome
PutChange(p, ok) ==
    /\ pc[p] = "putChange"
    /\ changes' = IF ok
                  THEN KVPut(changes, key[p],
                             VersionChange(key[p], previousVersion[p], latestVersion[p]))
                  ELSE changes
    /\ log' = [log EXCEPT ![p] =
          Append(@, Call("putChange", key[p], previousVersion[p], latestVersion[p], ok))]
    /\ pc' = [pc EXCEPT ![p] = IF ok THEN "putPointer" ELSE "failed"]
    /\ response' = NoResponse
    /\ UNCHANGED fetcher
    /\ UNCHANGED <<today, versions, lastChange, previousVersion, latestVersion,
                   key, startDay, runs, cadence>>

\* variant: the pointer is given the date on which the run started
PutPointerStartDay(p, ok) ==
    /\ pc[p] = "putPointer"
    /\ lastChange' = IF ok THEN startDay[p] ELSE lastChange
    /\ log' = [log EXCEPT ![p] = Append(@, Call("putPointer", key[p], None, None, ok))]
    /\ pc' = [pc EXCEPT ![p] = IF ok THEN "email" ELSE "failed"]
    /\ response' = NoResponse
    /\ UNCHANGED fetcher
    /\ UNCHANGED <<today, versions, changes, previousVersion, latestVersion,
                   key, startDay, runs, cadence>>

\* variant: a rejected put of the pointer does not stop the run
PutPointerFailureIgnored(p, ok) ==
    /\ pc[p] = "putPointer"
    /\ lastChange' = IF ok THEN key[p] ELSE lastChange
    /\ log' = [log EXCEPT ![p] = Append(@, Call("putPointer", key[p], None, None, ok))]
    /\ pc' = [pc EXCEPT ![p] = "email"]
    /\ response' = NoResponse
    /\ UNCHANGED fetcher
    /\ UNCHANGED <<today, versions, changes, previousVersion, latestVersion,
                   key, startDay, runs, cadence>>

\* MAP_VERSION_CHANGES.put("last_change", key) with either outcome
PutPointer(p, ok) ==
    /\ pc[p] = "putPointer"
    /\ lastChange' = IF ok THEN key[p] ELSE lastChange
    /\ log' = [log EXCEPT ![p] = Append(@, Call("putPointer", key[p], None, None, ok))]
    /\ pc' = [pc EXCEPT ![p] = IF ok THEN "email" ELSE "failed"]
    /\ response' = NoResponse
    /\ UNCHANGED fetcher
    /\ UNCHANGED <<today, versions, changes, previousVersion, latestVersion,
                   key, startDay, runs, cadence>>

\* variant: a failed change notification does not fail the run
SendChangeEmailSwallows(p, ok) ==
    /\ pc[p] = "email"
    /\ log' = [log EXCEPT ![p] =
          Append(@, Call("sendEmail:change", None, previousVersion[p], latestVersion[p], ok))]
    /\ pc' = [pc EXCEPT ![p] = "done"]
    /\ response' = NoResponse
    /\ UNCHANGED fetcher
    /\ UNCHANGED <<today, store, previousVersion, latestVersion, key, startDay,
                   runs, cadence>>

\* variant: a failed change notification is reported by another email
SendChangeEmailReportsFailure(p, ok) ==
    /\ pc[p] = "email"
    /\ log' = [log EXCEPT ![p] =
          Append(@, Call("sendEmail:change", None, previousVersion[p], latestVersion[p], ok))]
    /\ pc' = [pc EXCEPT ![p] = IF ok THEN "done" ELSE "report"]
    /\ response' = NoResponse
    /\ UNCHANGED fetcher
    /\ UNCHANGED <<today, store, previousVersion, latestVersion, key, startDay,
                   runs, cadence>>

\* sendEmail("New TomTom map version available", ...) with either outcome
SendChangeEmail(p, ok) ==
    /\ pc[p] = "email"
    /\ log' = [log EXCEPT ![p] =
          Append(@, Call("sendEmail:change", None, previousVersion[p], latestVersion[p], ok))]
    /\ pc' = [pc EXCEPT ![p] = IF ok THEN "done" ELSE "failed"]
    /\ response' = NoResponse
    /\ UNCHANGED fetcher
    /\ UNCHANGED <<today, store, previousVersion, latestVersion, key, startDay,
                   runs, cadence>>

\* the promise of scheduled() settles: the host records the outcome and the
\* invocation's locals are gone
Return(p) ==
    /\ pc[p] \in {"done", "failed"}
    /\ pc' = [pc EXCEPT ![p] = "idle"]
    /\ previousVersion' = [previousVersion EXCEPT ![p] = None]
    /\ latestVersion' = [latestVersion EXCEPT ![p] = None]
    /\ key' = [key EXCEPT ![p] = None]
    /\ startDay' = [startDay EXCEPT ![p] = None]
    /\ log' = [log EXCEPT ![p] = <<>>]
    /\ response' = NoResponse
    /\ UNCHANGED fetcher
    /\ UNCHANGED <<today, store, runs, cadence>>

(* ------------------------------ the clock ----------------------------- *)

\* midnight UTC passes
Tick ==
    /\ today < MaxDay
    /\ today' = today + 1
    /\ cadence' = IF cadence = "broken" \/ \E p \in Procs : Active(p)
                  THEN "broken" ELSE "fresh"
    /\ response' = NoResponse
    /\ UNCHANGED fetcher
    /\ UNCHANGED <<store, pc, previousVersion, latestVersion, key, startDay,
                   log, runs>>

(* ------------------------- the request handler ------------------------ *)

\* the keys of MAP_VERSION_CHANGES that list({prefix: "2"}) returns, in
\* ascending order of key: the date keys, never "last_change"
\* the key "last_change": it sorts after every date key ("l" > "2")
LastChangeKey == MaxDay + 1

\* variant: a list without the prefix, which returns the pointer key too
RECURSIVE ListChangesWithPointer(_, _)
ListChangesWithPointer(kv, d) ==
    IF d > MaxDay
    THEN IF lastChange # None
         THEN <<[date |-> LastChangeKey, from_version |-> None, to_version |-> None]>>
         ELSE <<>>
    ELSE IF kv[d] # NoChange
         THEN <<[date |-> d, from_version |-> kv[d].from_version,
                 to_version |-> kv[d].to_version]>> \o ListChangesWithPointer(kv, d + 1)
         ELSE ListChangesWithPointer(kv, d + 1)

RECURSIVE ListChanges(_, _)
ListChanges(kv, d) ==
    IF d > MaxDay THEN <<>>
    ELSE IF kv[d] # NoChange
         THEN <<[date |-> d, from_version |-> kv[d].from_version,
                 to_version |-> kv[d].to_version]>> \o ListChanges(kv, d + 1)
         ELSE ListChanges(kv, d + 1)

\* variant: the pages read today's key only
RespondTodayOnly(path) ==
    LET v == KVGet(versions, today)
        found == [date |-> IF v # None THEN today ELSE None, version |-> v]
    IN  CASE path \in {"/", "/v1/current"} ->
               [NoResponse EXCEPT !.status = 200, !.path = path,
                                  !.version = found.version, !.date = found.date]
          [] path \in {"/v1", "/v1/history"} ->
               [NoResponse EXCEPT !.status = 200, !.path = path]
          [] OTHER ->
               [NoResponse EXCEPT !.status = 404, !.path = path]

Respond(path) ==
    CASE path = "/" ->
           LET found == getLatestVersion(versions, today)
               lastChangeDate == lastChange
               lastChangeRec == IF lastChangeDate # None
                                THEN KVGet(changes, lastChangeDate)
                                ELSE NoChange
           IN  [NoResponse EXCEPT !.status = 200, !.path = path,
                                  !.version = found.version, !.date = found.date,
                                  !.lastChangeDate = lastChangeDate,
                                  !.lastChange = lastChangeRec]
      [] path = "/v1" ->
           [NoResponse EXCEPT !.status = 200, !.path = path]
      [] path = "/v1/current" ->
           LET versionWithDate == getLatestVersion(versions, today)
           IN  [NoResponse EXCEPT !.status = 200, !.path = path,
                                  !.version = versionWithDate.version,
                                  !.date = versionWithDate.date]
      [] path = "/v1/history" ->
           [NoResponse EXCEPT !.status = 200, !.path = path,
                              !.history = ListChanges(changes, 1)]
      [] OTHER ->
           [NoResponse EXCEPT !.status = 404, !.path = path]

\* variant: /v1/current stores the version it found under today's key
RequestRefreshing(path) ==
    /\ response' = Respond(path)
    /\ UNCHANGED fetcher
    /\ versions' = IF path = "/v1/current" /\ Respond(path).version # None
                   THEN KVPut(versions, today, Respond(path).version)
                   ELSE versions
    /\ UNCHANGED <<today, changes, lastChange, pc, previousVersion, latestVersion,
                   key, startDay, log, runs, cadence>>

\* fetch(request): one HTTP request is answered
Request(path) ==
    /\ response' = Respond(path)
    /\ UNCHANGED fetcher
    /\ UNCHANGED <<today, store, pc, previousVersion, latestVersion, key,
                   startDay, log, runs, cadence>>

(* --------------------------- specifications --------------------------- *)

\* one step of invocation p of scheduled()
RunStep(p) ==
    \/ ReadPreviousOk(p)
    \/ ReadPreviousFail(p)
    \/ \E v \in Versions : FetchOk(p, v)
    \/ FetchFail(p)
    \/ \E ok \in BOOLEAN : ReportError(p, ok)
    \/ PutVersionOk(p)
    \/ PutVersionFail(p)
    \/ \E ok \in BOOLEAN : PutChange(p, ok)
    \/ \E ok \in BOOLEAN : PutPointer(p, ok)
    \/ \E ok \in BOOLEAN : SendChangeEmail(p, ok)
    \/ Return(p)

\* scheduled runs one after the other, on any date, any number per date
Next ==
    \/ Tick
    \/ \E p \in Solo : RunStep(p)

Spec == Init /\ [][Next]_vars

\* return Response.json(...): the answer leaves the worker
Deliver ==
    /\ response # NoResponse
    /\ response' = NoResponse
    /\ UNCHANGED fetcher
    /\ UNCHANGED <<today, store, pc, previousVersion, latestVersion, key,
                   startDay, log, runs, cadence>>

\* no answer is on its way out
Quiet == response = NoResponse

\* the same runs, with HTTP requests answered at any moment; an answer is
\* looked at and gone before the next step is taken, since it holds nothing
\* a later step reads
NextHttp ==
    \/ Quiet /\ Tick
    \/ \E p \in Solo : Quiet /\ RunStep(p)
    \/ \E path \in Paths : Quiet /\ Request(path)
    \/ Deliver

SpecHttp == Init /\ [][NextHttp]_vars

\* when invocation p may be started: the first as soon as nothing is in
\* flight, the second only while the first, started on this date, is in
\* flight; the model holds one overlapping pair of runs, the last two of a
\* behaviour
MayStart(p) ==
    IF p \in Solo
    THEN \A q \in Procs \ {p} : pc[q] = "idle"
    ELSE /\ \E q \in Solo : Active(q) /\ startDay[q] = today
         /\ runs = MaxRuns - 1

\* two invocations are in flight
Overlapping == \A p \in Procs : pc[p] # "idle"

\* invocations that overlap on one date: the host starts a run while
\* another is in flight
NextConc ==
    \/ ~Overlapping /\ Tick
    \/ \E p \in Procs : MayStart(p) /\ ReadPreviousOk(p)
    \/ \E p \in Procs : MayStart(p) /\ ReadPreviousFail(p)
    \/ \E p \in Procs : pc[p] # "idle" /\ RunStep(p)

SpecConc == Init /\ [][NextConc]_vars

\* the fetcher alone, on every page within the bound
InitFetch ==
    /\ today = 1
    /\ versions = [d \in Days |-> None]
    /\ changes = [d \in Days |-> NoChange]
    /\ lastChange = None
    /\ pc = [p \in Procs |-> "idle"]
    /\ previousVersion = [p \in Procs |-> None]
    /\ latestVersion = [p \in Procs |-> None]
    /\ key = [p \in Procs |-> None]
    /\ startDay = [p \in Procs |-> None]
    /\ log = [p \in Procs |-> <<>>]
    /\ response = NoResponse
    /\ runs = 0
    /\ cadence = "fresh"
    /\ page \in Pages
    /\ outcome = NoOutcome

\* fetchMapVersion(env) is called once on the page
FetchPage ==
    /\ outcome = NoOutcome
    /\ outcome' = fetchMapVersion(page)
    /\ UNCHANGED <<today, store, pc, previousVersion, latestVersion, key,
                   startDay, log, response, runs, cadence, page>>

NextFetch == FetchPage

SpecFetch == InitFetch /\ [][NextFetch]_vars

(* ------------------------ reading a run's calls ----------------------- *)

\* the calls of run p with operation op and outcome ok
Calls(p, op, ok) ==
    {i \in 1..Len(log[p]) : log[p][i].op = op /\ log[p][i].ok = ok}

Made(p, op) == Calls(p, op, TRUE) \cup Calls(p, op, FALSE) # {}

\* the lookup of the previous version was answered, with a version
KnewPrevious(p) ==
    /\ Len(log[p]) >= 1
    /\ log[p][1].ok
    /\ previousVersion[p] # None

\* the lookup was answered: neither today's nor yesterday's key exists
KnewNoPrevious(p) ==
    /\ Len(log[p]) >= 1
    /\ log[p][1].ok
    /\ previousVersion[p] = None

\* the run wrote nothing to the change log and sent no change notification
NoChangeCalls(p) ==
    /\ ~Made(p, "putChange")
    /\ ~Made(p, "putPointer")
    /\ ~Made(p, "sendEmail:change")

\* the run made no write to the Version Store or the change log
NoWrites(p) ==
    /\ ~Made(p, "putVersion")
    /\ ~Made(p, "putChange")
    /\ ~Made(p, "putPointer")

\* the whole run fell on one date, which is still the date of the clock
OnOneDay(p) == startDay[p] = today

(* ------------------------------- claims ------------------------------- *)

\* C1: a run that knew a previous version, fetched a different one and had
\* no call fail ends with: a change record under today's date from the
\* previous to the fetched version, the pointer at today's date, today's
\* Version Record holding the fetched version, and exactly one change
\* notification sent (and no error notification).  Today's date is the date
\* of the run's writes, which is the date of the clock unless midnight
\* passed during the run.
C1_ChangeRecorded ==
    \A p \in Procs :
        (/\ pc[p] = "done"
         /\ KnewPrevious(p)
         /\ latestVersion[p] # previousVersion[p])
        => /\ OnOneDay(p) => key[p] = today
           /\ changes[key[p]].from_version = previousVersion[p]
           /\ changes[key[p]].to_version = latestVersion[p]
           /\ lastChange = key[p]
           /\ versions[key[p]] = latestVersion[p]
           /\ Cardinality(Calls(p, "sendEmail:change", TRUE)) = 1
           /\ ~Made(p, "sendEmail:error")

C1_Witness ==
    \E p \in Procs :
        /\ pc[p] = "done"
        /\ OnOneDay(p)
        /\ KnewPrevious(p)
        /\ latestVersion[p] # previousVersion[p]
        /\ Calls(p, "sendEmail:change", TRUE) # {}

\* C2: a run whose previous version is known and equals the fetched version
\* never writes a change record or the pointer and never sends a
\* notification; when it completes, its only store write is today's
\* Version Record.
C2_UnchangedWritesOnlyVersion ==
    \A p \in Procs :
        (KnewPrevious(p) /\ latestVersion[p] = previousVersion[p])
        => /\ NoChangeCalls(p)
           /\ Made(p, "sendEmail:error") => Calls(p, "putVersion", FALSE) # {}
           /\ pc[p] = "done" =>
                /\ Len(log[p]) = 3
                /\ log[p][3] = Call("putVersion", log[p][3].day, None, latestVersion[p], TRUE)
                /\ OnOneDay(p) => /\ log[p][3].day = today
                                  /\ versions[today] = latestVersion[p]

C2_Witness ==
    \E p \in Procs :
        /\ pc[p] = "done"
        /\ OnOneDay(p)
        /\ KnewPrevious(p)
        /\ latestVersion[p] = previousVersion[p]
        /\ Calls(p, "putVersion", TRUE) # {}

\* C3: a run that found neither today's nor yesterday's Version Record and
\* fetched a version stores today's Version Record and does nothing else:
\* no change record, no pointer write, no notification.
C3_FirstCheckStoresOnly ==
    \A p \in Procs :
        (KnewNoPrevious(p) /\ Calls(p, "fetchMapVersion", TRUE) # {})
        => /\ NoChangeCalls(p)
           /\ Made(p, "sendEmail:error") => Calls(p, "putVersion", FALSE) # {}
           /\ pc[p] = "done" =>
                /\ Len(log[p]) = 3
                /\ log[p][3] = Call("putVersion", log[p][3].day, None, latestVersion[p], TRUE)
                /\ OnOneDay(p) => /\ log[p][3].day = today
                                  /\ versions[today] = latestVersion[p]

C3_Witness ==
    \E p \in Procs :
        /\ pc[p] = "done"
        /\ OnOneDay(p)
        /\ KnewNoPrevious(p)
        /\ versions[today] = latestVersion[p]
        /\ latestVersion[p] # None

\* the dates before d that hold a Version Record
PriorDates(d) == {e \in Days : e < d /\ versions[e] # None}

\* the most recent Version Record stored under a date before d
MostRecentPrior(d) ==
    versions[CHOOSE e \in PriorDates(d) : \A f \in PriorDates(d) : f <= e]

\* the Version Record under d differs from the most recent one before d
DiffersFromPrior(d) ==
    /\ versions[d] # None
    /\ PriorDates(d) # {}
    /\ versions[d] # MostRecentPrior(d)

\* C4 (as claimed): after any sequence of runs, several on one date
\* included, a change record exists under D only if the Version Record
\* under D differs from the most recent Version Record before D.
C4_AsClaimed ==
    \A d \in Days : changes[d] # NoChange => DiffersFromPrior(d)

\* C4 (amended): the same, for sequences of runs with at most one run per
\* date, each within its date; runs may fail part-way.
C4_ChangeImpliesDifference ==
    cadence # "broken" =>
        \A d \in Days : changes[d] # NoChange => DiffersFromPrior(d)

C4_Witness ==
    /\ cadence # "broken"
    /\ \E d \in Days : changes[d] # NoChange /\ DiffersFromPrior(d)

\* C5 (as claimed): once written, the Version Record under a date never
\* changes and is never deleted.
C5_AsClaimed ==
    [][\A d \in Days : versions[d] # None => versions'[d] = versions[d]]_vars

\* C5 (amended): a Version Record is never deleted, and the record under a
\* date D is overwritten only by a run that writes on date D itself, which
\* takes a second run on that date or a run across midnight; requests never
\* write.
C5_NeverDeletedRewrittenOnlyToday ==
    [][\A d \in Days :
         versions[d] # None =>
            /\ versions'[d] # None
            /\ versions'[d] # versions[d] =>
                  /\ d = today
                  /\ cadence' = "broken"
                  /\ \E p \in Procs : pc[p] = "persist" /\ pc'[p] # "persist"]_vars

C5_Witness ==
    /\ runs >= 2
    /\ \E d \in Days : d < today /\ versions[d] # None /\ versions[today] # None

\* what the lookup is claimed to return for a store kv on date now
LatestAsClaimed(kv, now) ==
    IF KVGet(kv, now) # None
    THEN [date |-> now, version |-> KVGet(kv, now)]
    ELSE IF KVGet(kv, now - 1) # None
         THEN [date |-> now - 1, version |-> KVGet(kv, now - 1)]
         ELSE NoneFound

\* the store kv without its keys older than yesterday
LastTwoDays(kv, now) ==
    [d \in DOMAIN kv |-> IF d \in {now, now - 1} THEN kv[d] ELSE None]

\* C6: getLatestVersion returns (today, value) when today's key is present,
\* otherwise (yesterday, value) when yesterday's key is present, otherwise
\* none; keys older than yesterday never influence the result.  It holds of
\* the function on every reachable store, of the previous version a run
\* holds after its lookup, and of what /v1/current answers.  (An answer on
\* its way out leaves the store as it was in the state before, where the
\* function is looked at.)
C6_LatestIsTodayElseYesterday ==
    /\ Quiet =>
          \A now \in Days :
              /\ getLatestVersion(versions, now) = LatestAsClaimed(versions, now)
              /\ getLatestVersion(versions, now)
                    = getLatestVersion(LastTwoDays(versions, now), now)
    /\ \A p \in Procs :
          (pc[p] \in {"fetch", "persist"} /\ log[p][1].ok)
          => /\ previousVersion[p] = LatestAsClaimed(versions, startDay[p]).version
             /\ log[p][1].day = LatestAsClaimed(versions, startDay[p]).date
    /\ response.path = "/v1/current"
          => /\ response.version = LatestAsClaimed(versions, today).version
             /\ response.date = LatestAsClaimed(versions, today).date

C6_Witness ==
    \E p \in Procs :
        /\ pc[p] = "fetch"
        /\ log[p][1].ok
        /\ today = 3
        /\ versions[1] # None
        /\ versions[2] = None
        /\ versions[3] = None
        /\ previousVersion[p] = None
        /\ response.path = "/v1/current"
        /\ response.version = None

\* C7: when the fetch fails the run ends failed, makes no write to the
\* Version Store or the change log, and attempts an error notification if
\* and only if a previous version was known.
C7_FetchFailure ==
    \A p \in Procs :
        Calls(p, "fetchMapVersion", FALSE) # {}
        => /\ pc[p] \in {"report", "failed"}
           /\ NoWrites(p)
           /\ ~Made(p, "sendEmail:change")
           /\ pc[p] = "report" => previousVersion[p] # None
           /\ pc[p] = "failed" =>
                 /\ Made(p, "sendEmail:error") <=> previousVersion[p] # None
                 /\ Cardinality(Calls(p, "sendEmail:error", TRUE)
                                \cup Calls(p, "sendEmail:error", FALSE)) <= 1

C7_Witness ==
    /\ \E p \in Procs :
          /\ pc[p] = "failed"
          /\ Calls(p, "fetchMapVersion", FALSE) # {}
          /\ previousVersion[p] # None
          /\ Calls(p, "sendEmail:error", TRUE) # {}
    /\ \E d \in Days : versions[d] # None

\* C8 (as claimed): when the write of today's Version Record fails, the
\* error notification is conditional on a known previous version, as it is
\* for a fetch failure.
C8_AsClaimed ==
    \A p \in Procs :
        (Calls(p, "putVersion", FALSE) # {} /\ pc[p] = "failed")
        => (Made(p, "sendEmail:error") <=> previousVersion[p] # None)

\* C8 (amended): when the write of today's Version Record fails, the run
\* ends failed, writes no change record, and attempts exactly one error
\* notification whether or not a previous version is known.
C8_PersistFailureAlwaysReports ==
    \A p \in Procs :
        Calls(p, "putVersion", FALSE) # {}
        => /\ pc[p] \in {"report", "failed"}
           /\ NoChangeCalls(p)
           /\ Calls(p, "putVersion", TRUE) = {}
           /\ pc[p] = "failed" =>
                 Cardinality(Calls(p, "sendEmail:error", TRUE)
                             \cup Calls(p, "sendEmail:error", FALSE)) = 1

C8_Witness ==
    \E p \in Procs :
        /\ pc[p] = "failed"
        /\ Calls(p, "putVersion", FALSE) # {}
        /\ KnewNoPrevious(p)
        /\ Made(p, "sendEmail:error")

\* the lookup of the previous version failed
LookupFailed(p) == Len(log[p]) >= 1 /\ ~log[p][1].ok

\* C9: a failed lookup of the previous version is swallowed: the run goes
\* on to fetch with no previous version, so it never writes a change record
\* or the pointer and never sends a change notification, sends no
\* notification at all unless the write of the Version Record fails, and,
\* when fetch and persist succeed, has written today's Version Record and
\* ends successfully.
C9_LookupFailureSwallowed ==
    \A p \in Procs :
        LookupFailed(p)
        => /\ previousVersion[p] = None
           /\ Len(log[p]) = 1 => pc[p] = "fetch"
           /\ NoChangeCalls(p)
           /\ Made(p, "sendEmail:error") => Calls(p, "putVersion", FALSE) # {}
           /\ (Calls(p, "fetchMapVersion", TRUE) # {} /\ Calls(p, "putVersion", TRUE) # {})
                 => /\ pc[p] = "done"
                    /\ Len(log[p]) = 3
                    /\ OnOneDay(p) => versions[today] = latestVersion[p]

C9_Witness ==
    \E p \in Procs :
        /\ pc[p] = "done"
        /\ LookupFailed(p)
        /\ OnOneDay(p)
        /\ today > 1
        /\ versions[today - 1] # None
        /\ versions[today - 1] # latestVersion[p]
        /\ versions[today] = latestVersion[p]
        /\ changes[today] = NoChange

\* the calls of run p after the lookup that failed
FailedSteps(p) == {i \in 2..Len(log[p]) : ~log[p][i].ok}

\* C10: a run ends successfully only if every step it attempted after the
\* lookup succeeded: once the fetch, a store write or the change
\* notification has failed, the run makes no further call but the error
\* report and ends failed.
C10_SuccessOnlyIfAllSucceeded ==
    \A p \in Procs :
        /\ pc[p] = "done" => FailedSteps(p) = {}
        /\ FailedSteps(p) # {} =>
              /\ pc[p] \in {"report", "failed"}
              /\ \A i \in FailedSteps(p) :
                    \A j \in (i + 1)..Len(log[p]) : log[p][j].op = "sendEmail:error"

C10_Witness ==
    \E p \in Procs :
        /\ pc[p] = "failed"
        /\ Calls(p, "sendEmail:change", FALSE) # {}
        /\ lastChange = today
        /\ changes[today] # NoChange

\* the email sends run p attempted, of either kind, with either outcome
EmailAttempts(p) ==
    {i \in 1..Len(log[p]) : log[p][i].op \in {"sendEmail:change", "sendEmail:error"}}

\* C11: a single scheduled run makes at most one email send attempt on
\* every path: a failed send, of the change notification or of the error
\* report, is the run's last call and is not reported by another email.
C11_AtMostOneEmailAttempt ==
    \A p \in Procs :
        /\ Cardinality(EmailAttempts(p)) <= 1
        /\ \A i \in EmailAttempts(p) :
              ~log[p][i].ok => (i = Len(log[p]) /\ pc[p] = "failed")

C11_Witness ==
    \E p \in Procs :
        /\ pc[p] = "failed"
        /\ Calls(p, "sendEmail:change", FALSE) # {}
        /\ Cardinality(EmailAttempts(p)) = 1

\* C12: handling an HTTP request, whatever its path, leaves the Version
\* Store, the change log and the pointer unchanged and sends no
\* notification (no run makes a call or moves in that step).
C12_RequestsWriteNothing ==
    [][response' # NoResponse =>
          /\ versions' = versions
          /\ changes' = changes
          /\ lastChange' = lastChange
          /\ log' = log
          /\ pc' = pc]_vars

C12_Witness ==
    /\ response.path = "/v1/current"
    /\ response.version # None
    /\ response.date = today - 1
    /\ versions[today] = None
    /\ lastChange # None

\* C13: the read endpoints report the latest stored version: /v1/current
\* answers the version and date getLatestVersion yields (today's key if
\* present, else yesterday's), both null when neither key is present; /
\* answers 200 with that version.
C13_EndpointsReportLatest ==
    /\ response.path = "/v1/current" =>
          /\ response.status = 200
          /\ response.version = LatestAsClaimed(versions, today).version
          /\ response.date = LatestAsClaimed(versions, today).date
    /\ response.path = "/" =>
          /\ response.status = 200
          /\ response.version = LatestAsClaimed(versions, today).version
          /\ response.date = LatestAsClaimed(versions, today).date

C13_Witness ==
    /\ response.path = "/"
    /\ response.status = 200
    /\ response.version # None
    /\ response.date = today - 1
    /\ \E d \in Days : d < today - 1 /\ versions[d] # None /\ versions[d] # response.version

\* runs p and q observed the same transition on the same date
SameTransition(p, q) ==
    /\ p # q
    /\ KnewPrevious(p)
    /\ KnewPrevious(q)
    /\ previousVersion[p] = previousVersion[q]
    /\ startDay[p] = startDay[q]
    /\ latestVersion[p] = latestVersion[q]
    /\ latestVersion[p] # None
    /\ latestVersion[p] # previousVersion[p]

\* C14: nothing keeps two overlapping runs of one date from both recording
\* and announcing the same transition: whenever both read the same previous
\* version, fetched the same new version and completed, each of them wrote
\* the change record under the same key and the pointer, and each sent a
\* change notification.
C14_BothRecordAndNotify ==
    \A p, q \in Procs :
        (SameTransition(p, q) /\ pc[p] = "done" /\ pc[q] = "done")
        => /\ key[p] = key[q]
           /\ Calls(p, "putChange", TRUE) # {}
           /\ Calls(q, "putChange", TRUE) # {}
           /\ Calls(p, "putPointer", TRUE) # {}
           /\ Calls(q, "putPointer", TRUE) # {}
           /\ Calls(p, "sendEmail:change", TRUE) # {}
           /\ Calls(q, "sendEmail:change", TRUE) # {}
           /\ changes[key[p]].from_version = previousVersion[p]
           /\ changes[key[p]].to_version = latestVersion[p]
           /\ lastChange = key[p]

C14_Witness ==
    \E p, q \in Procs :
        /\ SameTransition(p, q)
        /\ pc[p] = "done"
        /\ pc[q] = "done"
        /\ key[p] = today
        /\ key[q] = today
        /\ versions[today] = latestVersion[p]
        /\ Calls(p, "putChange", TRUE) # {}
        /\ Calls(q, "putChange", TRUE) # {}
        /\ Calls(p, "sendEmail:change", TRUE) # {}
        /\ Calls(q, "sendEmail:change", TRUE) # {}

\* the dates that hold a change record
ChangeDates == {d \in Days : changes[d] # NoChange}

\* the date of the most recent change record
MostRecentChangeDate == CHOOSE d \in ChangeDates : \A e \in ChangeDates : e <= d

\* C15 (as claimed): in every reachable state in which the change log
\* holds a change record, the pointer holds the date of the most recent
\* one, also after runs that fail part-way.
C15_AsClaimed ==
    ChangeDates # {} => lastChange = MostRecentChangeDate

\* C15 (amended): for runs one after the other, the pointer, when set,
\* holds a date no later than the most recent change record, and it holds
\* the date of the most recent change record from the moment the run that
\* wrote that record has written the pointer; while that write is pending,
\* and after it failed, the pointer is unset or lags behind.
C15_PointerFollowsRecord ==
    /\ lastChange # None =>
          /\ ChangeDates # {}
          /\ lastChange <= MostRecentChangeDate
    /\ \A p \in Procs :
          Calls(p, "putPointer", TRUE) # {} =>
             /\ lastChange = key[p]
             /\ lastChange = MostRecentChangeDate

C15_Witness ==
    \E p \in Procs :
        /\ pc[p] = "done"
        /\ Calls(p, "putPointer", TRUE) # {}
        /\ lastChange = today
        /\ Cardinality(ChangeDates) >= 1
        /\ startDay[p] < today

\* C16: /v1/history returns the full change log: exactly one entry per
\* stored change record, in ascending order of date key, each with the
\* record's date, from_version and to_version, and no entry for the
\* "last_change" key.
C16_HistoryIsTheChangeLog ==
    response.path = "/v1/history" =>
        LET h == response.history
        IN  /\ response.status = 200
            /\ Len(h) = Cardinality(ChangeDates)
            /\ \A i \in 1..Len(h) :
                  /\ h[i].date \in ChangeDates
                  /\ h[i].from_version = changes[h[i].date].from_version
                  /\ h[i].to_version = changes[h[i].date].to_version
            /\ \A i, j \in 1..Len(h) : i < j => h[i].date < h[j].date

C16_Witness ==
    /\ response.path = "/v1/history"
    /\ Len(response.history) = 2
    /\ lastChange # None
    /\ response.history[1].to_version = response.history[2].from_version

\* the text the marker is looked for in
Cleaned(body) == CollapseSpaces(StripTags(body, 1), 1)

\* the cleaned text holds a match of "latest map version is NNNN"
HasMarker(text) == \E i \in 1..Len(text) : MatchesAt(text, i)

\* C17 as stated: every call ends in one of three outcomes, a fetch error,
\* a parse error or the four digits, told apart by the status and the marker.
C17_AsClaimed ==
    outcome # NoOutcome =>
        /\ outcome.kind \in {"FetchError", "ParseError", "value"}
        /\ outcome.kind = "FetchError" <=> ~IsOk(page.status)
        /\ outcome.kind = "value" <=>
              (IsOk(page.status) /\ HasMarker(Cleaned(page.body)))

\* C17: when a response arrives the fetcher has exactly three outcomes: a
\* fetch error when the status is not a success; a parse error when the
\* status is a success and the tag-stripped, whitespace-collapsed text holds
\* no case-insensitive match of "latest map version is NNNN"; otherwise the
\* four digits of the leftmost match.  When no response arrives (the timeout
\* of five seconds, no connection) it fails with the error of the fetch
\* itself.  It returns no value on a failed status, on a missing marker or
\* without a response.
C17_OutcomesByResponse ==
    outcome # NoOutcome =>
        /\ outcome.kind \in {"FetchError", "ParseError", "value", "TransportError"}
        /\ outcome.kind = "TransportError" <=> ~page.arrived
        /\ outcome.kind = "FetchError" <=> (page.arrived /\ ~IsOk(page.status))
        /\ outcome.kind = "ParseError" <=>
              (page.arrived /\ IsOk(page.status) /\ ~HasMarker(Cleaned(page.body)))
        /\ outcome.kind = "value" <=>
              (page.arrived /\ IsOk(page.status) /\ HasMarker(Cleaned(page.body)))
        /\ outcome.kind # "value" => outcome.version = None
        /\ outcome.kind = "value" =>
              /\ outcome.version \in 0..9999
              /\ \E i \in 1..Len(Cleaned(page.body)) :
                    /\ MatchesAt(Cleaned(page.body), i)
                    /\ \A j \in 1..(i - 1) : ~MatchesAt(Cleaned(page.body), j)
                    /\ outcome.version = Captured(Cleaned(page.body), i)

C17_Witness ==
    /\ outcome.kind = "value"
    /\ outcome.version = 2027
    /\ page.status = 200
    /\ page.body = PhraseUpper \o <<" ">> \o <<"<", "b", ">">> \o <<"2", "0", "2", "7">>

\* C18: whenever the "last_change" pointer is set, a change record is stored
\* under the date it holds: a run reaches the pointer write only with its
\* record stored, so a failure between the two writes (or a second run
\* writing at the same time) leaves no pointer without its record.
C18_PointerNeverDangles ==
    /\ lastChange # None =>
          /\ lastChange \in Days
          /\ changes[lastChange] # NoChange
    /\ \A p \in Procs :
          pc[p] = "putPointer" \/ Made(p, "putPointer") =>
              /\ Calls(p, "putChange", TRUE) # {}
              /\ changes[key[p]] # NoChange

\* a run has failed between the two writes while an older pointer is set
C18_Witness ==
    /\ lastChange # None
    /\ \E p \in Procs :
          /\ pc[p] = "failed"
          /\ Calls(p, "putChange", TRUE) # {}
          /\ Calls(p, "putPointer", FALSE) # {}
          /\ key[p] # lastChange

\* the steps of a run, in the order of the text of scheduled()
StepOrder ==
    <<"getLatestVersion", "fetchMapVersion", "putVersion", "putChange",
      "putPointer", "sendEmail:change">>

\* the place of a step in that order; an error report has none
StepRank(op) ==
    IF \E k \in 1..Len(StepOrder) : StepOrder[k] = op
    THEN CHOOSE k \in 1..Len(StepOrder) : StepOrder[k] = op
    ELSE 0

\* the step op was made with success before the i-th call of run p
DoneBefore(p, op, i) == \E j \in Calls(p, op, TRUE) : j < i

\* C19: the calls of a run follow the order read previous, fetch, write
\* Version Record, write change record, write pointer, send change
\* notification, each at most once and none skipped on the way to a later
\* one; a change notification is sent only after the Version Record, the
\* change record and the pointer were written with success and are in the
\* store, and a change record is written only after the Version Record was.
C19_FixedStepOrder ==
    \A p \in Solo :
        /\ \A i \in 1..Len(log[p]) :
              LET op == log[p][i].op
              IN  /\ StepRank(op) # 0 => StepRank(op) = i
                  /\ StepRank(op) = 0 => op = "sendEmail:error" /\ i = Len(log[p])
                  /\ op = "putChange" =>
                        /\ DoneBefore(p, "putVersion", i)
                        /\ versions[log[p][i].day] = latestVersion[p]
                  /\ op = "sendEmail:change" =>
                        /\ DoneBefore(p, "putVersion", i)
                        /\ DoneBefore(p, "putChange", i)
                        /\ DoneBefore(p, "putPointer", i)
                        /\ versions[key[p]] = latestVersion[p]
                        /\ changes[key[p]] =
                              VersionChange(key[p], previousVersion[p], latestVersion[p])
                        /\ lastChange = key[p]
        /\ pc[p] = "email" =>
              /\ Calls(p, "putVersion", TRUE) # {}
              /\ Calls(p, "putChange", TRUE) # {}
              /\ Calls(p, "putPointer", TRUE) # {}

\* a run has gone through all six steps
C19_Witness ==
    \E p \in Solo :
        /\ pc[p] = "done"
        /\ Len(log[p]) = Len(StepOrder)
        /\ Calls(p, "sendEmail:change", TRUE) # {}

\* C20: a change that a run found but did not get recorded or notified is
\* not tried again.  A run, one after the other, whose fetch returns the
\* version of the newest Version Record of today and yesterday (as an earlier
\* run left it, however that run ended) does not take it for a change: it
\* knew that version as the previous one, or knew none after a failed
\* lookup; and a run that fetched the version it knew, or knew none, writes
\* no change record and no pointer and sends no change notification.
C20_LostChangeNotRetried ==
    \A p \in Solo :
        /\ ( /\ pc[p] = "persist"
             /\ LatestAsClaimed(versions, startDay[p]).version = latestVersion[p] )
           => /\ DetectChange(previousVersion[p], latestVersion[p]) # "changed"
              /\ previousVersion[p] = latestVersion[p] \/ LookupFailed(p)
        /\ ( /\ Calls(p, "fetchMapVersion", TRUE) # {}
             /\ previousVersion[p] \in {None, latestVersion[p]} )
           => /\ NoChangeCalls(p)
              /\ pc[p] \in {"persist", "report", "done", "failed"}

\* a change is in the log without its pointer, and a later run that fetched
\* the same version has ended without touching either
C20_Witness ==
    \E p \in Solo, d \in Days :
        /\ changes[d] # NoChange
        /\ lastChange = None
        /\ pc[p] = "done"
        /\ startDay[p] \in {d, d + 1}
        /\ KnewPrevious(p)
        /\ previousVersion[p] = changes[d].to_version
        /\ latestVersion[p] = changes[d].to_version
        /\ NoChangeCalls(p)

\* the record rec tells of a change between two versions
WellFormedChange(rec) ==
    /\ rec.from_version \in Versions
    /\ rec.to_version \in Versions
    /\ rec.from_version # rec.to_version

\* run p has stored the version to as the Version Record of the date of
\* its put
StoredByRun(p, to) ==
    \E i \in Calls(p, "putVersion", TRUE) :
        log[p][i].day \in Days /\ log[p][i].to = to

\* C21: every change record in the change log has a from_version different
\* from its to_version, both of them versions (never empty); and each write
\* to the change log is made by a run under its own key, leaves the other
\* records alone, and its to_version is the version that run had just stored
\* as the Version Record of that date, its from_version the previous version
\* that run had read.
C21_RecordsAreRealChanges ==
    /\ [](\A d \in Days : changes[d] # NoChange => WellFormedChange(changes[d]))
    /\ [][changes' # changes =>
            \E p \in Procs :
                /\ pc[p] = "putChange"
                /\ pc'[p] = "putPointer"
                /\ \A d \in Days \ {key[p]} : changes'[d] = changes[d]
                /\ WellFormedChange(changes'[key[p]])
                /\ changes'[key[p]].to_version = latestVersion[p]
                /\ changes'[key[p]].from_version = previousVersion[p]
                /\ StoredByRun(p, changes'[key[p]].to_version)]_vars

\* a run has written its record after an overlapping run of the same date
\* stored another version: the record tells what its writer stored
C21_Witness ==
    \E p \in Procs :
        /\ pc[p] = "putPointer"
        /\ changes[key[p]] # NoChange
        /\ changes[key[p]].to_version = latestVersion[p]
        /\ versions[key[p]] # latestVersion[p]
        /\ StoredByRun(p, latestVersion[p])

=============================================================================
